---- MODULE Spec2Model ----
(***************************************************************************)
(* A model of grayjay_pl_dl.py: the text recovery chain applied to         *)
(* cache.json, the field projection, the copy-and-rename step and the      *)
(* process-pool conversion to mp3.                                         *)
(*                                                                         *)
(* Text is a sequence of one-character strings.  An optional value (what   *)
(* dict.get returns) is a sequence of length 0 (None) or 1 (the value).    *)
(* A directory is a function from the file names in it to their contents.  *)
(***************************************************************************)
EXTENDS Integers, Sequences, FiniteSets, TLC

VARIABLES
    \* ---- text recovery chain (grayjay_pl_dl, lines 271-273)
    npc,            \* position in the chain
    input,          \* the text the chain was started on
    cache,          \* content of cache.json
    outputs,        \* the chain's results so far, one per application
    \* ---- filter_json_data
    fpc,            \* position in filter_json_data
    data,           \* data["videos"], the descriptors read
    fi,             \* index of the descriptor of the current iteration
    filtered_data,  \* the list being built
    \* ---- rename_files_based_on_json
    rpc,            \* position in rename_files_based_on_json
    videos,         \* json_data["videos"]
    vi,             \* index of the video of the current iteration
    toScan,         \* file names of os.listdir not yet visited for this video
    srcDir,         \* input_directory
    dstDir,         \* output_directory
    srcDir0,        \* input_directory as it was before the step
    dstDir0,        \* output_directory as it was before the step
    notices,        \* indexes of the videos the skip notice was printed for
    copies,         \* <<video index, file name>> of every copy made
    \* ---- convert_folder_to_mp3
    cpc,            \* position of the main flow
    max_workers,    \* size of the process pool
    dirFiles,       \* names of the files in the directory
    files_to_convert, \* the listed paths, in submission order
    job,            \* per listed path: the state of its future
    mp3_of,         \* per started job: the output path it computed
    exit,           \* per job: how its encoder run ended
    completed,      \* futures in completion order, not yet yielded
    success_count,
    failure_count

chainVars == <<npc, input, cache, outputs>>
filterVars == <<fpc, data, fi, filtered_data>>
renameVars == <<rpc, videos, vi, toScan, srcDir, dstDir, srcDir0, dstDir0, notices, copies>>
convertVars == <<cpc, max_workers, dirFiles, files_to_convert, job, mp3_of, exit,
                 completed, success_count, failure_count>>
vars == <<chainVars, filterVars, renameVars, convertVars>>

(***************************************************************************)
(* Bounds of the model.                                                    *)
(***************************************************************************)
MaxLen == 4        \* longest arbitrary text given to the chain
MaxClean == 3      \* longest clean text S of the round trip
MaxData == 2       \* most descriptors given to filter_json_data
MaxVideos == 2     \* most projected videos given to the rename step
MaxFiles == 2      \* most convertible files in the directory
MaxWorkers == 2    \* largest process pool

(***************************************************************************)
(* Characters and text helpers.                                            *)
(***************************************************************************)
Quote == "\""
Backslash == "\\"

None == <<>>
Some(v) == <<v>>

RECURSIVE SeqsUpTo(_, _)
SeqsUpTo(S, n) ==
    IF n = 0 THEN {<<>>}
    ELSE LET shorter == SeqsUpTo(S, n - 1)
         IN shorter \cup {Append(s, c) : s \in shorter, c \in S}

Drop(s, n) == SubSeq(s, n + 1, Len(s))
Take(s, n) == SubSeq(s, 1, n)

\* str.startswith / str.endswith
StartsWith(s, p) == Len(s) >= Len(p) /\ Take(s, Len(p)) = p
EndsWith(s, p) == Len(s) >= Len(p) /\ Drop(s, Len(s) - Len(p)) = p

\* str.replace(old, new) for a non-empty old: left to right, non-overlapping
RECURSIVE Replace(_, _, _)
Replace(s, old, new) ==
    IF s = <<>> THEN <<>>
    ELSE IF StartsWith(s, old) THEN new \o Replace(Drop(s, Len(old)), old, new)
    ELSE <<Head(s)>> \o Replace(Tail(s), old, new)

\* `sub in s` for strings
Contains(s, sub) == \E i \in 0..(Len(s) - Len(sub)) : SubSeq(s, i + 1, i + Len(sub)) = sub

(***************************************************************************)
(* Text Recovery Normalizer.                                               *)
(***************************************************************************)
CacheMarker == <<Quote, "_", "_", "C", "A", "C", "H", "E", ":">>

\* lines 57-61: the text after the marker and one trailing quote are cut
CropCache(content) ==
    LET c1 == IF StartsWith(content, CacheMarker) THEN Drop(content, Len(CacheMarker))
              ELSE content
    IN IF EndsWith(c1, <<Quote>>) THEN Take(c1, Len(c1) - 1) ELSE c1

\* a bug the round trip must notice: every quote removed, escaped or not
RemoveAllQuotes(content) == SelectSeq(content, LAMBDA c : c # Quote)

\* line 84: re.sub(r'(?<!\\)"', '', content)
RemoveUnescapedQuotes(content) ==
    LET keep(i) == ~(content[i] = Quote /\ (i = 1 \/ content[i - 1] # Backslash))
        F[i \in 0..Len(content)] ==
            IF i = 0 THEN <<>>
            ELSE IF keep(i) THEN Append(F[i - 1], content[i]) ELSE F[i - 1]
    IN F[Len(content)]

\* the pattern written without the r prefix: '\"' is a lone quote, nothing changes
UnescapeQuotesNotRaw(content) == Replace(content, <<Quote>>, <<Quote>>)

\* line 85: content.replace(r'\"', '"')
UnescapeQuotes(content) == Replace(content, <<Backslash, Quote>>, <<Quote>>)

\* lines 84-85
ReplaceAndRemoveQuotes(content) == UnescapeQuotes(RemoveUnescapedQuotes(content))

\* line 121: content.replace(r'\\"', '')
RemoveEscapedQuotes(content) == Replace(content, <<Backslash, Backslash, Quote>>, <<>>)

\* json.dumps of a string with no backslash and no control character, between its quotes
EscapeQuotes(s) == Replace(s, <<Quote>>, <<Backslash, Quote>>)

\* the corrupted text of a clean text S: "__CACHE: S-escaped "
Corrupt(S) == CacheMarker \o EscapeQuotes(S) \o <<Quote>>

TextChars == {Quote, Backslash, "a"}
CleanChars == {Quote, "a", ":"}
CleanTexts == SeqsUpTo(CleanChars, MaxClean)
ChainInputs ==
    SeqsUpTo(TextChars, MaxLen)
        \cup {Corrupt(S) : S \in CleanTexts}
        \cup {CacheMarker \o t : t \in SeqsUpTo(TextChars, MaxLen - 1)}

ChainIdle == npc = "off" /\ input = <<>> /\ cache = <<>> /\ outputs = <<>>

ChainInit ==
    /\ npc = "crop"
    /\ input \in ChainInputs
    /\ cache = input
    /\ outputs = <<>>

\* line 271: crop_cache_string(..., save_changes=True)
crop_cache_string ==
    /\ npc = "crop"
    /\ cache' = CropCache(cache)
    /\ npc' = "replace"
    /\ UNCHANGED <<input, outputs>>
    /\ UNCHANGED <<filterVars, renameVars, convertVars>>

\* line 272: replace_and_remove_quotes(..., save_changes=True)
replace_and_remove_quotes ==
    /\ npc = "replace"
    /\ cache' = ReplaceAndRemoveQuotes(cache)
    /\ npc' = "remove"
    /\ UNCHANGED <<input, outputs>>
    /\ UNCHANGED <<filterVars, renameVars, convertVars>>

\* line 273: modified_content = remove_escaped_quotes(..., save_changes=False)
remove_escaped_quotes ==
    /\ npc = "remove"
    /\ outputs' = Append(outputs, RemoveEscapedQuotes(cache))
    /\ npc' = "recovered"
    /\ UNCHANGED <<input, cache>>
    /\ UNCHANGED <<filterVars, renameVars, convertVars>>

\* the chain applied a second time, to its own output
ApplyAgain ==
    /\ npc = "recovered"
    /\ Len(outputs) = 1
    /\ cache' = outputs[1]
    /\ npc' = "crop"
    /\ UNCHANGED <<input, outputs>>
    /\ UNCHANGED <<filterVars, renameVars, convertVars>>

ChainNext ==
    \/ crop_cache_string
    \/ replace_and_remove_quotes
    \/ remove_escaped_quotes
    \/ ApplyAgain

(***************************************************************************)
(* Field Projector: filter_json_data.                                      *)
(***************************************************************************)
\* A descriptor as json.loads gives it.  name: None when the key is absent or
\* null.  id: the key absent, null, or an object whose "value" is optional.
DataNames == {None, Some(<<>>), Some(<<"a">>)}
DataValues == {None, Some(<<>>), Some(<<"b">>)}
DataIds ==
    {[kind |-> "absent", value |-> None], [kind |-> "null", value |-> None]}
        \cup {[kind |-> "object", value |-> v] : v \in DataValues}
Descriptors == [name : DataNames, id : DataIds]

\* Python truth of an optional string: None and "" are false
Truthy(opt) == opt # None /\ opt[1] # <<>>

\* line 144: video.get("id", {}).get("value"), for an id that is not null
IdValue(id) == IF id.kind = "object" THEN id.value ELSE None

\* lines 142-145
FilteredVideo(video) == [name |-> video.name, value |-> IdValue(video.id)]

\* a projector that drops the descriptors without a usable name and value
AppendUsable(list, video) ==
    IF Truthy(video.name) /\ Truthy(IdValue(video.id))
    THEN Append(list, FilteredVideo(video))
    ELSE list

\* line 146
AppendFiltered(list, video) == Append(list, FilteredVideo(video))

FilterIdle == fpc = "off" /\ data = <<>> /\ fi = 0 /\ filtered_data = <<>>

FilterInit ==
    /\ fpc = "loop"
    /\ data \in SeqsUpTo(Descriptors, MaxData)
    /\ fi = 1
    /\ filtered_data = <<>>

\* lines 141-146, one iteration
FilterVideo ==
    /\ fpc = "loop"
    /\ fi <= Len(data)
    /\ data[fi].id.kind # "null"
    /\ filtered_data' = AppendFiltered(filtered_data, data[fi])
    /\ fi' = fi + 1
    /\ UNCHANGED <<fpc, data>>
    /\ UNCHANGED <<chainVars, renameVars, convertVars>>

\* line 144 with "id": null: None has no get, AttributeError
FilterRaise ==
    /\ fpc = "loop"
    /\ fi <= Len(data)
    /\ data[fi].id.kind = "null"
    /\ fpc' = "raised"
    /\ UNCHANGED <<data, fi, filtered_data>>
    /\ UNCHANGED <<chainVars, renameVars, convertVars>>

\* line 147
FilterReturn ==
    /\ fpc = "loop"
    /\ fi > Len(data)
    /\ fpc' = "returned"
    /\ UNCHANGED <<data, fi, filtered_data>>
    /\ UNCHANGED <<chainVars, renameVars, convertVars>>

FilterNext ==
    \/ FilterVideo
    \/ FilterRaise
    \/ FilterReturn

(***************************************************************************)
(* Paths and directories.                                                  *)
(***************************************************************************)
Webma == <<".", "w", "e", "b", "m", "a">>
Mp4a == <<".", "m", "p", "4", "a">>
Mp3 == <<".", "m", "p", "3">>

\* index of the last occurrence of character c in s, 0 when there is none
LastIndexOf(s, c) ==
    LET hits == {i \in 1..Len(s) : s[i] = c}
    IN IF hits = {} THEN 0 ELSE CHOOSE i \in hits : \A j \in hits : j <= i

\* os.path.splitext: the extension starts at the last dot of the base name,
\* unless only dots precede it there
SplitExt(p) ==
    LET sepIndex == LastIndexOf(p, "/")
        dotIndex == LastIndexOf(p, ".")
    IN IF dotIndex > sepIndex /\ \E k \in (sepIndex + 1)..(dotIndex - 1) : p[k] # "."
       THEN <<Take(p, dotIndex - 1), Drop(p, dotIndex - 1)>>
       ELSE <<p, <<>>>>

\* os.path.basename
Basename(p) == Drop(p, LastIndexOf(p, "/"))

\* os.path.join(a, b) for a relative b
Join(a, b) == IF a = <<>> \/ a[Len(a)] = "/" THEN a \o b ELSE a \o <<"/">> \o b

\* a directory with file n holding content c / without file n
Put(dir, n, c) == [x \in DOMAIN dir \cup {n} |-> IF x = n THEN c ELSE dir[x]]
Del(dir, n) == [x \in (DOMAIN dir) \ {n} |-> dir[x]]

(***************************************************************************)
(* File Matcher/Renamer: rename_files_based_on_json.                       *)
(***************************************************************************)
ControlChars == {"\t", "\n", "\r", "\f"}
IllegalChars == {"<", ">", ":", Quote, "/", Backslash, "|", "?", "*"} \cup ControlChars

\* line 160: re.sub(r'[<>:"/\\|?*\x00-\x1F]', '_', name), for a string
SanitizeFilename(name) == [i \in 1..Len(name) |-> IF name[i] \in IllegalChars THEN "_" ELSE name[i]]

\* lines 248-250: the name of the renamed copy
NameWithExtension(name, filename) == SanitizeFilename(name) \o SplitExt(filename)[2]

\* lines 253-256: shutil.copy into the directory, then os.rename of the copy
CopyThenRename(dst, src, filename, name) ==
    LET copied == Put(dst, filename, src[filename])
        new == NameWithExtension(name, filename)
    IN IF new = filename THEN copied
       ELSE Put(Del(copied, filename), new, copied[filename])

VideoNames == {None, Some(<<>>), Some(<<"x">>), Some(<<"y", ":">>)}
VideoValues == {None, Some(<<>>), Some(<<"x">>), Some(<<"y">>)}
ProjectedVideos == [name : VideoNames, value : VideoValues]

\* the downloads: content k stands for the bytes of the k-th file
SourceFiles ==
    [n \in {<<"x">> \o Webma, <<"y", "_">> \o Webma, <<"x", "y">> \o Mp4a} |->
        IF n = <<"x">> \o Webma THEN 1 ELSE IF n = <<"y", "_">> \o Webma THEN 2 ELSE 3]
\* what the output directory may hold before the step: content 0
EarlierFiles == {<<"x">> \o Webma, <<"y", "_">> \o Webma, <<"k">> \o Mp3}

Restrict(f, S) == [x \in S |-> f[x]]

RenameIdle ==
    /\ rpc = "off" /\ videos = <<>> /\ vi = 0 /\ toScan = {}
    /\ srcDir = <<>> /\ dstDir = <<>> /\ srcDir0 = <<>> /\ dstDir0 = <<>>
    /\ notices = {} /\ copies = {}

RenameInit ==
    /\ rpc = "video"
    /\ videos \in SeqsUpTo(ProjectedVideos, MaxVideos)
    /\ vi = 1
    /\ toScan = {}
    /\ srcDir \in {Restrict(SourceFiles, S) : S \in SUBSET DOMAIN SourceFiles}
    /\ dstDir \in {[n \in S |-> 0] : S \in SUBSET EarlierFiles}
    /\ srcDir0 = srcDir
    /\ dstDir0 = dstDir
    /\ notices = {}
    /\ copies = {}

\* line 239 for a video without a name: re.sub on None, TypeError
RenameRaise ==
    /\ rpc = "video"
    /\ vi <= Len(videos)
    /\ videos[vi].name = None
    /\ rpc' = "raised"
    /\ UNCHANGED <<videos, vi, toScan, srcDir, dstDir, srcDir0, dstDir0, notices, copies>>
    /\ UNCHANGED <<chainVars, filterVars, convertVars>>

\* lines 241-243
RenameSkip ==
    /\ rpc = "video"
    /\ vi <= Len(videos)
    /\ videos[vi].name # None
    /\ ~Truthy(videos[vi].value) \/ SanitizeFilename(videos[vi].name[1]) = <<>>
    /\ notices' = notices \cup {vi}
    /\ vi' = vi + 1
    /\ UNCHANGED <<rpc, videos, toScan, srcDir, dstDir, srcDir0, dstDir0, copies>>
    /\ UNCHANGED <<chainVars, filterVars, convertVars>>

\* line 245: os.listdir(input_directory)
RenameListdir ==
    /\ rpc = "video"
    /\ vi <= Len(videos)
    /\ videos[vi].name # None
    /\ Truthy(videos[vi].value) /\ SanitizeFilename(videos[vi].name[1]) # <<>>
    /\ toScan' = DOMAIN srcDir
    /\ rpc' = "scan"
    /\ UNCHANGED <<videos, vi, srcDir, dstDir, srcDir0, dstDir0, notices, copies>>
    /\ UNCHANGED <<chainVars, filterVars, convertVars>>

\* lines 245-258, one iteration; the order of os.listdir is arbitrary
RenameFile ==
    /\ rpc = "scan"
    /\ \E filename \in toScan :
        /\ toScan' = toScan \ {filename}
        /\ IF Contains(filename, videos[vi].value[1])
           THEN /\ dstDir' = CopyThenRename(dstDir, srcDir, filename, videos[vi].name[1])
                /\ copies' = copies \cup {<<vi, filename>>}
           ELSE UNCHANGED <<dstDir, copies>>
    /\ UNCHANGED <<rpc, videos, vi, srcDir, srcDir0, dstDir0, notices>>
    /\ UNCHANGED <<chainVars, filterVars, convertVars>>

\* the inner loop ends, the next video follows
RenameNextVideo ==
    /\ rpc = "scan"
    /\ toScan = {}
    /\ vi' = vi + 1
    /\ rpc' = "video"
    /\ UNCHANGED <<videos, toScan, srcDir, dstDir, srcDir0, dstDir0, notices, copies>>
    /\ UNCHANGED <<chainVars, filterVars, convertVars>>

\* the loop of line 237 ends
RenameReturn ==
    /\ rpc = "video"
    /\ vi > Len(videos)
    /\ rpc' = "done"
    /\ UNCHANGED <<videos, vi, toScan, srcDir, dstDir, srcDir0, dstDir0, notices, copies>>
    /\ UNCHANGED <<chainVars, filterVars, convertVars>>

RenameNext ==
    \/ RenameRaise
    \/ RenameSkip
    \/ RenameListdir
    \/ RenameFile
    \/ RenameNextVideo
    \/ RenameReturn

(***************************************************************************)
(* Concurrent Format Converter: convert_folder_to_mp3.                     *)
(***************************************************************************)
\* output_folder of grayjay_pl_dl, shortened
Directory == <<"o", "/">>

\* line 202: the filter of the listing
Convertible(f) == EndsWith(f, Webma) \/ EndsWith(f, Mp4a)

\* lines 173-175
Mp3FilePath(file_path, directory) ==
    Join(directory, SplitExt(Basename(file_path))[1] \o Mp3)

\* os.remove whether or not the encoder succeeded
RemoveAlways(files, file_path, status) == files \ {n \in files : Join(Directory, n) = file_path}

\* lines 186-190: os.remove(file_path) is reached only after a zero exit
RemoveOriginal(files, file_path, status) ==
    IF status = "zero" THEN files \ {n \in files : Join(Directory, n) = file_path}
    ELSE files

\* what the directory may hold before the pass
ListedNames == {<<"a">> \o Webma, <<"a">> \o Mp4a, <<"b">> \o Webma, Webma, <<"a">> \o Mp3}

ListingOrders(S) ==
    {q \in [1..Cardinality(S) -> S] : \A i, j \in 1..Cardinality(S) : q[i] = q[j] => i = j}

Active == {f \in DOMAIN job : job[f] \in {"running", "encoded"}}
Pending == {i \in 1..Len(files_to_convert) : job[files_to_convert[i]] = "pending"}
Settled == {f \in DOMAIN job : job[f] \in {"true", "false", "exception"}}

ConvertIdle ==
    /\ cpc = "off" /\ max_workers = 0 /\ dirFiles = {} /\ files_to_convert = <<>>
    /\ job = <<>> /\ mp3_of = <<>> /\ exit = <<>> /\ completed = <<>>
    /\ success_count = 0 /\ failure_count = 0

ConvertInit ==
    /\ cpc = "list"
    /\ max_workers \in 1..MaxWorkers
    /\ dirFiles \in {S \in SUBSET ListedNames : Cardinality({n \in S : Convertible(n)}) <= MaxFiles}
    /\ files_to_convert = <<>>
    /\ job = <<>> /\ mp3_of = <<>> /\ exit = <<>>
    /\ completed = <<>>
    /\ success_count = 0
    /\ failure_count = 0

\* lines 202-210: the listing, in the order os.listdir gives, and one future per path
Submit ==
    /\ cpc = "list"
    /\ \E order \in ListingOrders({n \in dirFiles : Convertible(n)}) :
        /\ files_to_convert' = [i \in DOMAIN order |-> Join(Directory, order[i])]
        /\ job' = [f \in {Join(Directory, n) : n \in {n \in dirFiles : Convertible(n)}} |-> "pending"]
    /\ mp3_of' = [f \in DOMAIN job' |-> <<>>]
    /\ exit' = [f \in DOMAIN job' |-> "none"]
    /\ cpc' = "collect"
    /\ UNCHANGED <<max_workers, dirFiles, completed, success_count, failure_count>>
    /\ UNCHANGED <<chainVars, filterVars, renameVars>>

\* a free worker takes the next work item: lines 173-183 of convert_file_to_mp3
JobStart ==
    /\ Pending # {}
    /\ Cardinality(Active) < max_workers
    /\ LET i == CHOOSE k \in Pending : \A m \in Pending : k <= m
           f == files_to_convert[i]
       IN /\ job' = [job EXCEPT ![f] = "running"]
          /\ mp3_of' = [mp3_of EXCEPT ![f] = Mp3FilePath(f, Directory)]
    /\ UNCHANGED <<cpc, max_workers, dirFiles, files_to_convert, exit, completed,
                   success_count, failure_count>>
    /\ UNCHANGED <<chainVars, filterVars, renameVars>>

\* line 186: the encoder exits with status 0, its output written
EncoderSucceeds ==
    /\ \E f \in DOMAIN job :
        /\ job[f] = "running"
        /\ job' = [job EXCEPT ![f] = "encoded"]
        /\ exit' = [exit EXCEPT ![f] = "zero"]
        /\ dirFiles' = dirFiles \cup {Basename(mp3_of[f])}
    /\ UNCHANGED <<cpc, max_workers, files_to_convert, mp3_of, completed,
                   success_count, failure_count>>
    /\ UNCHANGED <<chainVars, filterVars, renameVars>>

\* lines 186, 189-190: a non-zero exit, with or without a partial output left;
\* CalledProcessError is caught and (file_path, False) returned
EncoderFails ==
    /\ \E f \in DOMAIN job, partial \in BOOLEAN :
        /\ job[f] = "running"
        /\ job' = [job EXCEPT ![f] = "false"]
        /\ exit' = [exit EXCEPT ![f] = "nonzero"]
        /\ dirFiles' = RemoveOriginal(IF partial THEN dirFiles \cup {Basename(mp3_of[f])}
                                      ELSE dirFiles, f, "nonzero")
        /\ completed' = Append(completed, f)
    /\ UNCHANGED <<cpc, max_workers, files_to_convert, mp3_of, success_count, failure_count>>
    /\ UNCHANGED <<chainVars, filterVars, renameVars>>

\* line 186: the encoder cannot be started; subprocess.run raises an OSError,
\* which line 189 does not catch: the future holds the exception
EncoderFailsToSpawn ==
    /\ \E f \in DOMAIN job :
        /\ job[f] = "running"
        /\ job' = [job EXCEPT ![f] = "exception"]
        /\ exit' = [exit EXCEPT ![f] = "spawn"]
        /\ completed' = Append(completed, f)
    /\ UNCHANGED <<cpc, max_workers, dirFiles, files_to_convert, mp3_of,
                   success_count, failure_count>>
    /\ UNCHANGED <<chainVars, filterVars, renameVars>>

\* lines 187-188: os.remove(file_path), return (file_path, True)
JobRemove ==
    /\ \E f \in DOMAIN job :
        /\ job[f] = "encoded"
        /\ IF Basename(f) \in dirFiles
           THEN /\ dirFiles' = RemoveOriginal(dirFiles, f, exit[f])
                /\ job' = [job EXCEPT ![f] = "true"]
           ELSE /\ job' = [job EXCEPT ![f] = "exception"]
                /\ UNCHANGED dirFiles
        /\ completed' = Append(completed, f)
    /\ UNCHANGED <<cpc, max_workers, files_to_convert, mp3_of, exit,
                   success_count, failure_count>>
    /\ UNCHANGED <<chainVars, filterVars, renameVars>>

\* lines 212-220: as_completed yields the next finished future; future.result()
\* returns the job's tuple or raises the job's exception
Collect ==
    /\ cpc = "collect"
    /\ completed # <<>>
    /\ completed' = Tail(completed)
    /\ CASE job[Head(completed)] = "true" ->
              /\ success_count' = success_count + 1
              /\ UNCHANGED <<failure_count, cpc>>
         [] job[Head(completed)] = "false" ->
              /\ failure_count' = failure_count + 1
              /\ UNCHANGED <<success_count, cpc>>
         [] OTHER ->
              /\ cpc' = "raising"
              /\ UNCHANGED <<success_count, failure_count>>
    /\ UNCHANGED <<max_workers, dirFiles, files_to_convert, job, mp3_of, exit>>
    /\ UNCHANGED <<chainVars, filterVars, renameVars>>

\* line 222, after every future was yielded and the pool shut down
ReportTotals ==
    /\ cpc = "collect"
    /\ success_count + failure_count = Len(files_to_convert)
    /\ cpc' = "done"
    /\ UNCHANGED <<max_workers, dirFiles, files_to_convert, job, mp3_of, exit, completed,
                   success_count, failure_count>>
    /\ UNCHANGED <<chainVars, filterVars, renameVars>>

\* the exception leaves the with block of line 209: the pool is shut down, which
\* waits for every job, and the exception leaves convert_folder_to_mp3
Propagate ==
    /\ cpc = "raising"
    /\ Settled = DOMAIN job
    /\ cpc' = "aborted"
    /\ UNCHANGED <<max_workers, dirFiles, files_to_convert, job, mp3_of, exit, completed,
                   success_count, failure_count>>
    /\ UNCHANGED <<chainVars, filterVars, renameVars>>

ConvertNext ==
    \/ Submit
    \/ JobStart
    \/ EncoderSucceeds
    \/ EncoderFails
    \/ EncoderFailsToSpawn
    \/ JobRemove
    \/ Collect
    \/ ReportTotals
    \/ Propagate

(***************************************************************************)
(* Specifications, one per component.                                      *)
(***************************************************************************)
InitChain == ChainInit /\ FilterIdle /\ RenameIdle /\ ConvertIdle
InitFilter == ChainIdle /\ FilterInit /\ RenameIdle /\ ConvertIdle
InitRename == ChainIdle /\ FilterIdle /\ RenameInit /\ ConvertIdle
InitConvert == ChainIdle /\ FilterIdle /\ RenameIdle /\ ConvertInit

SpecChain == InitChain /\ [][ChainNext]_vars
SpecFilter == InitFilter /\ [][FilterNext]_vars
SpecRename == InitRename /\ [][RenameNext]_vars
SpecConvert == InitConvert /\ [][ConvertNext]_vars

\* every worker process and the main flow are scheduled as long as they can run
FairConvert == InitConvert /\ [][ConvertNext]_vars /\ WF_vars(ConvertNext)

(***************************************************************************)
(* Properties.                                                             *)
(***************************************************************************)
Range(s) == {s[i] : i \in DOMAIN s}

\* ---- Concurrent Format Converter

FailedNonZero == {f \in DOMAIN exit : exit[f] = "nonzero"}
FailedEncoder == {f \in DOMAIN exit : exit[f] \in {"nonzero", "spawn"}}

\* C1: when the pass has reported its totals and every encoder run exited, zero
\* or non-zero, the failures counted are exactly the K non-zero exits, the
\* successes the other N-K, the originals of the successes are gone and the
\* originals of the failures are still in the directory.
C1_TallyAndOriginals ==
    (cpc = "done" /\ \A f \in DOMAIN exit : exit[f] \in {"zero", "nonzero"}) =>
        /\ failure_count = Cardinality(FailedNonZero)
        /\ success_count = Len(files_to_convert) - Cardinality(FailedNonZero)
        /\ \A f \in DOMAIN exit :
            /\ exit[f] = "zero" => Basename(f) \notin dirFiles
            /\ exit[f] = "nonzero" => Basename(f) \in dirFiles

C1_Witness ==
    /\ cpc = "done"
    /\ Len(files_to_convert) = 2
    /\ Cardinality(FailedNonZero) = 1
    /\ success_count = 1

\* C2: a job whose encoder fails, by a non-zero exit or by not starting, never
\* makes the pass raise; its original stays in the directory; and the totals
\* reported count every such job as one failure.
C2_FailureIsolated ==
    /\ cpc \notin {"raising", "aborted"}
    /\ \A f \in FailedEncoder : Basename(f) \in dirFiles
    /\ cpc = "done" => failure_count = Cardinality(FailedEncoder)

\* C3: for every pool size and every number of files, every submitted job
\* eventually completes and the main flow eventually reports the totals.
C3_EventuallyReports == <>(cpc = "done" /\ Settled = DOMAIN job)

\* C9: any two different jobs of a pass touch different files: neither the input
\* path nor the output path of one is the input or the output path of the other.
C9_DistinctFiles ==
    \A f, g \in DOMAIN job :
        (f # g /\ mp3_of[f] # <<>> /\ mp3_of[g] # <<>>) =>
            {f, mp3_of[f]} \cap {g, mp3_of[g]} = {}

\* ---- Field Projector

Usable(video) == Truthy(video.name) /\ Truthy(IdValue(video.id))

Matches(i, f) ==
    /\ Truthy(videos[i].name)
    /\ Truthy(videos[i].value)
    /\ Contains(f, videos[i].value[1])

\* the names sanitize(name) + extension of the matched entries
Targets ==
    {NameWithExtension(videos[i].name[1], f) :
        <<i, f>> \in {m \in (DOMAIN videos) \X (DOMAIN srcDir0) : Matches(m[1], m[2])}}

\* C5: an entry whose name or value is missing or empty never makes the step
\* raise; once passed, the notice was printed for it and no file was copied for it.
C5_SkippedWithoutError ==
    /\ rpc # "raised"
    /\ \A i \in DOMAIN videos :
        (i < vi /\ ~(Truthy(videos[i].name) /\ Truthy(videos[i].value))) =>
            /\ i \in notices
            /\ \A f \in DOMAIN srcDir0 : <<i, f>> \notin copies

\* C6: after the step, for every video with a non-empty name and value and every
\* source file whose name contains the value, the destination holds
\* sanitize(name) + extension with the content of a source file matched to that
\* name, holds nothing under the source file's own name (unless that is itself
\* the name of a renamed copy), and the source directory is as it was.
C6_RenamedCopies ==
    rpc = "done" =>
        /\ srcDir = srcDir0
        /\ \A i \in DOMAIN videos, f \in DOMAIN srcDir0 :
            Matches(i, f) =>
                LET t == NameWithExtension(videos[i].name[1], f)
                IN /\ t \in DOMAIN dstDir
                   /\ \E j \in DOMAIN videos, g \in DOMAIN srcDir0 :
                        /\ Matches(j, g)
                        /\ NameWithExtension(videos[j].name[1], g) = t
                        /\ dstDir[t] = srcDir0[g]
                   /\ f \in DOMAIN dstDir => f \in Targets

\* C10: after the step, every file that was in the destination before it under a
\* name that is not sanitize(name) + extension of a matched entry is still
\* there with the content it had.
C10_OtherFilesKept ==
    rpc = "done" =>
        \A n \in DOMAIN dstDir0 :
            n \notin Targets => (n \in DOMAIN dstDir /\ dstDir[n] = dstDir0[n])

\* ---- Text Recovery Normalizer

\* C7: started on the corrupted text of a clean text S without backslash, the
\* chain yields exactly S.
C7_RoundTrip ==
    \A S \in CleanTexts :
        (input = Corrupt(S) /\ Len(outputs) >= 1) => outputs[1] = S

C7_Witness ==
    \E S \in CleanTexts :
        /\ Quote \in Range(S)
        /\ Len(S) = MaxClean
        /\ input = Corrupt(S)
        /\ Len(outputs) >= 1

\* C8 as stated: the chain applied to its own output gives that output again.
C8_Idempotent == Len(outputs) = 2 => outputs[2] = outputs[1]

\* C8 amended: the chain applied to its own output gives that output again
\* exactly when the output holds no quote; when it holds one, the second
\* application gives a strictly shorter text.
C8_IdempotentIffNoQuote ==
    Len(outputs) = 2 =>
        /\ (outputs[2] = outputs[1]) <=> (Quote \notin Range(outputs[1]))
        /\ Quote \in Range(outputs[1]) => Len(outputs[2]) < Len(outputs[1])

C8_Witness ==
    /\ Len(outputs) = 2
    /\ Quote \notin Range(outputs[1])
    /\ outputs[2] = outputs[1]
    /\ outputs[1] # <<>>
    /\ outputs[1] # input

====
